---- MODULE Spec2Model ----
(***************************************************************************)
(* A model of the mika BitTorrent tracker core: the Peer record and its    *)
(* Update / SetUserID / IsHNR / AddHNR methods, the compact peer encoder   *)
(* MakeCompactPeers (src/tracker/peer.go) and the scrape handler           *)
(* (src/unnamed/part_000).                                                 *)
(***************************************************************************)
EXTENDS Integers, Sequences, FiniteSets, Bags, TLC

VARIABLES
    peer,      \* the Peer record a sequential caller works on
    prev,      \* that record as it was on entry to the last Update
    lastAnn,   \* the AnnounceRequest of the last Update (NoAnn before any)
    ret,       \* the (ul_diff, dl_diff) the last Update returned
    now,       \* util.Unixtime()
    sent,      \* commands queued on the redis connection by r.Send
    hist,      \* the Updates of a run, each with the record before and after
    swarm,     \* the []*Peer handed to MakeCompactPeers
    enc,       \* the skip id and the bytes of the last MakeCompactPeers call
    sc,        \* a scrape request and what the handler did with it
    peers,     \* the Peer records concurrent callers share
    lock,      \* the holder of each shared peer's mutex (0: free)
    th,        \* each concurrent caller's position and locals
    serial,    \* each shared peer after the calls that have returned, in order
    wl         \* the tracker's whitelist and the last IsValidClient call

vars == <<peer, prev, lastAnn, ret, now, sent, hist, swarm, enc, sc, peers, lock, th, serial, wl>>

seqVars == <<peer, prev, lastAnn, ret, sent, hist>>
compactVars == <<swarm, enc>>
scrapeVars == <<sc>>
concVars == <<peers, lock, th, serial>>
wlVars == <<wl>>

(***************************************************************************)
(* Bounds of the model and configuration values.                           *)
(***************************************************************************)
\* latest clock value the model lets the clock reach
MaxTime == 5
\* Updates one peer receives in the sequential specification
MaxAnnounces == 2
\* Updates recorded in a history of announces
MaxHist == 3
\* peers of the swarm handed to MakeCompactPeers
MaxPeers == 2
\* Updates a peer of that swarm receives
MaxSwarmAnnounces == 1
\* infohashes of a scrape query
MaxHashes == 3
\* calls one concurrent caller makes
MaxOps == 1
\* client prefixes of a whitelist
MaxPrefixes == 2
\* conf.Config.AnnInterval
AnnInterval == 1
\* conf.Config.HNRMinBytes
HNRMinBytes == 50
\* conf.Config.HNRThreshold
HNRThreshold == 3
\* the clock when the model starts
StartTime == 4
\* stand-in for 2^64 where a uint64 wraps: TLC's integers are 32 bits wide,
\* and every other number of the model is far below this one
Uint64Top == 1048576

(***************************************************************************)
(* Events of an announce.                                                  *)
(***************************************************************************)
STARTED == "started"
STOPPED == "stopped"
COMPLETED == "completed"
NONE == ""
Events == {STARTED, STOPPED, COMPLETED, NONE}

(***************************************************************************)
(* net.IP: a byte slice of length 0 (nil), 4 or 16.  The string form of an *)
(* address is a tagged value: what net.IP.String prints and what           *)
(* net.ParseIP reads.                                                      *)
(***************************************************************************)
IPNil == <<>>
IPv4a == <<10, 0, 0, 1>>
IPv4Mapped == <<0, 0, 0, 0, 0, 0, 0, 0, 0, 0, 255, 255, 192, 168, 1, 2>>
IPv6a == <<32, 1, 13, 184, 0, 0, 0, 0, 0, 0, 0, 0, 0, 0, 0, 1>>
NetIPs == {IPNil, IPv4a, IPv4Mapped, IPv6a}

V4InV6Prefix == <<0, 0, 0, 0, 0, 0, 0, 0, 0, 0, 255, 255>>

\* net.IP.To4: the 4-byte form of an IPv4 address, nil for anything else
To4(ip) ==
    IF Len(ip) = 4 THEN ip
    ELSE IF Len(ip) = 16 /\ SubSeq(ip, 1, 12) = V4InV6Prefix
         THEN SubSeq(ip, 13, 16)
         ELSE IPNil

\* net.IP.String
IPString(ip) ==
    IF Len(ip) = 0 THEN <<"<nil>">>
    ELSE IF Len(To4(ip)) = 4 THEN <<"dotted", To4(ip)>>
    ELSE IF Len(ip) = 16 THEN <<"colon", ip>>
    ELSE <<"?", ip>>

\* net.ParseIP: the 16-byte form of the address a string denotes, nil when
\* the string is no address
ParseIP(s) ==
    IF s[1] = "dotted" THEN V4InV6Prefix \o s[2]
    ELSE IF s[1] = "colon" THEN s[2]
    ELSE IPNil

(***************************************************************************)
(* util.EstSpeed, a float64 held as a fraction <<bytes, seconds>> in       *)
(* lowest terms.                                                           *)
(***************************************************************************)
RECURSIVE GCD(_, _)
GCD(a, b) == IF b = 0 THEN a ELSE GCD(b, a % b)

ZeroSpeed == <<0, 1>>

EstSpeed(last, cur, bytes) ==
    IF cur - last <= 0 \/ bytes = 0 THEN ZeroSpeed
    ELSE LET g == GCD(bytes, cur - last)
         IN  <<bytes \div g, (cur - last) \div g>>

SpeedGT(a, b) == a[1] * b[2] > b[1] * a[2]

(***************************************************************************)
(* MakePeer: the default record, and the records redis.ScanStruct loads.   *)
(***************************************************************************)
MakePeerDefault(torrent_id, peer_id, t) ==
    [ PeerID        |-> peer_id,
      Active        |-> FALSE,
      Announces     |-> 0,
      SpeedUP       |-> ZeroSpeed,
      SpeedDN       |-> ZeroSpeed,
      SpeedUPMax    |-> ZeroSpeed,
      SpeedDNMax    |-> ZeroSpeed,
      Uploaded      |-> 0,
      Downloaded    |-> 0,
      Left          |-> 0,
      Corrupt       |-> 0,
      Username      |-> "",
      IP            |-> <<"dotted", <<127, 0, 0, 1>>>>,
      Port          |-> 0,
      AnnounceFirst |-> t,
      AnnounceLast  |-> t,
      TotalTime     |-> 0,
      UserID        |-> 0,
      TorrentID     |-> torrent_id ]

\* values a stored peer hash holds for the fields the claims read
MakePeerLoaded(torrent_id, peer_id, t) ==
    { [ MakePeerDefault(torrent_id, peer_id, t) EXCEPT
          !.Active = act, !.AnnounceLast = al, !.AnnounceFirst = 1,
          !.Uploaded = bytes[1], !.Downloaded = bytes[2],
          !.UserID = 7, !.Username = "bob" ] :
        act \in BOOLEAN, al \in {0, 1, t + 1}, bytes \in {<<100, 50>>} }

MakePeer(torrent_id, peer_id, t) ==
    {MakePeerDefault(torrent_id, peer_id, t)} \cup MakePeerLoaded(torrent_id, peer_id, t)

(***************************************************************************)
(* Peer.Update.                                                            *)
(***************************************************************************)
ToUint64(x) == IF x >= 0 THEN x ELSE Uint64Top + x

\* UpdateCounters with a started announce credited against the stored
\* counters instead of taken as the baseline
UpdateCountersStartedDelta(p, a) ==
    IF a.Event # STARTED /\ (a.Uploaded < p.Uploaded \/ a.Downloaded < p.Downloaded)
    THEN [Uploaded |-> a.Uploaded, Downloaded |-> a.Downloaded, ul |-> 0, dl |-> 0]
    ELSE [Uploaded |-> a.Uploaded, Downloaded |-> a.Downloaded,
          ul |-> IF a.Uploaded # p.Uploaded THEN ToUint64(a.Uploaded - p.Uploaded) ELSE 0,
          dl |-> IF a.Downloaded # p.Downloaded THEN ToUint64(a.Downloaded - p.Downloaded) ELSE 0]

\* UpdateCounters with the restart test looking at the uploaded counter only
UpdateCountersNoDlCheck(p, a) ==
    IF a.Event = STARTED \/ a.Uploaded < p.Uploaded
    THEN [Uploaded |-> a.Uploaded, Downloaded |-> a.Downloaded, ul |-> 0, dl |-> 0]
    ELSE [Uploaded |-> a.Uploaded, Downloaded |-> a.Downloaded,
          ul |-> IF a.Uploaded # p.Uploaded THEN ToUint64(a.Uploaded - p.Uploaded) ELSE 0,
          dl |-> IF a.Downloaded # p.Downloaded THEN ToUint64(a.Downloaded - p.Downloaded) ELSE 0]

\* UpdateCounters returning the reported counter as the delta
UpdateCountersAbsolute(p, a) ==
    IF a.Event = STARTED
    THEN [Uploaded |-> a.Uploaded, Downloaded |-> a.Downloaded, ul |-> 0, dl |-> 0]
    ELSE IF a.Uploaded < p.Uploaded \/ a.Downloaded < p.Downloaded
    THEN [Uploaded |-> a.Uploaded, Downloaded |-> a.Downloaded, ul |-> 0, dl |-> 0]
    ELSE [Uploaded |-> a.Uploaded, Downloaded |-> a.Downloaded,
          ul |-> IF a.Uploaded # p.Uploaded THEN a.Uploaded ELSE 0,
          dl |-> IF a.Downloaded # p.Downloaded THEN a.Downloaded ELSE 0]

\* UpdateCounters storing the delta of a plain announce in place of the
\* reported counter
UpdateCountersStoreDelta(p, a) ==
    IF a.Event = STARTED
    THEN [Uploaded |-> a.Uploaded, Downloaded |-> a.Downloaded, ul |-> 0, dl |-> 0]
    ELSE IF a.Uploaded < p.Uploaded \/ a.Downloaded < p.Downloaded
    THEN [Uploaded |-> a.Uploaded, Downloaded |-> a.Downloaded, ul |-> 0, dl |-> 0]
    ELSE [Uploaded |-> ToUint64(a.Uploaded - p.Uploaded),
          Downloaded |-> ToUint64(a.Downloaded - p.Downloaded),
          ul |-> IF a.Uploaded # p.Uploaded THEN ToUint64(a.Uploaded - p.Uploaded) ELSE 0,
          dl |-> IF a.Downloaded # p.Downloaded THEN ToUint64(a.Downloaded - p.Downloaded) ELSE 0]

\* lines 53-72: the counters and the returned deltas
UpdateCounters(p, a) ==
    IF a.Event = STARTED
    THEN [Uploaded |-> a.Uploaded, Downloaded |-> a.Downloaded, ul |-> 0, dl |-> 0]
    ELSE IF a.Uploaded < p.Uploaded \/ a.Downloaded < p.Downloaded
    THEN [Uploaded |-> a.Uploaded, Downloaded |-> a.Downloaded, ul |-> 0, dl |-> 0]
    ELSE [Uploaded |-> a.Uploaded, Downloaded |-> a.Downloaded,
          ul |-> IF a.Uploaded # p.Uploaded THEN ToUint64(a.Uploaded - p.Uploaded) ELSE 0,
          dl |-> IF a.Downloaded # p.Downloaded THEN ToUint64(a.Downloaded - p.Downloaded) ELSE 0]

\* UpdateTotalTime with a gap equal to the ceiling still counted
UpdateTotalTimeInclusive(p, t2) ==
    IF p.Active /\ p.AnnounceLast > 0
    THEN LET time_diff == ToUint64(t2 - p.AnnounceLast)
         IN  IF time_diff <= AnnInterval * 4
             THEN p.TotalTime + time_diff
             ELSE p.TotalTime
    ELSE p.TotalTime

\* lines 86-93: the cumulative active time
UpdateTotalTime(p, t2) ==
    IF p.Active /\ p.AnnounceLast > 0
    THEN LET time_diff == ToUint64(t2 - p.AnnounceLast)
         IN  IF time_diff < AnnInterval * 4
             THEN p.TotalTime + time_diff
             ELSE p.TotalTime
    ELSE p.TotalTime

\* UpdateActive with the wrong event compared
UpdateActiveOnCompleted(p, a) == IF a.Event = COMPLETED THEN FALSE ELSE p.Active

\* UpdateActive with a started announce marking the peer active
UpdateActiveOnStarted(p, a) ==
    IF a.Event = STOPPED THEN FALSE ELSE IF a.Event = STARTED THEN TRUE ELSE p.Active

\* lines 94-96: the active flag
UpdateActive(p, a) == IF a.Event = STOPPED THEN FALSE ELSE p.Active

\* Update with the bytes left kept across a started announce
UpdateOpKeepLeft(p, a, cur_time, t2) ==
    LET c    == UpdateCounters(p, a)
        up   == EstSpeed(p.AnnounceLast, cur_time, c.ul)
        dn   == EstSpeed(p.AnnounceLast, cur_time, c.dl)
    IN  [ peer |->
            [ p EXCEPT
                !.PeerID     = a.PeerID,
                !.Announces  = p.Announces + 1,
                !.Uploaded   = c.Uploaded,
                !.Downloaded = c.Downloaded,
                !.IP         = IPString(a.IPv4),
                !.Port       = a.Port,
                !.Corrupt    = a.Corrupt,
                !.Left       = IF a.Event = STARTED THEN p.Left ELSE a.Left,
                !.SpeedUP    = up,
                !.SpeedDN    = dn,
                !.SpeedUPMax = IF SpeedGT(up, p.SpeedUPMax) THEN up ELSE p.SpeedUPMax,
                !.SpeedDNMax = IF SpeedGT(dn, p.SpeedDNMax) THEN dn ELSE p.SpeedDNMax,
                !.TotalTime  = UpdateTotalTime(p, t2),
                !.Active     = UpdateActive(p, a) ],
          ul |-> c.ul,
          dl |-> c.dl ]

\* Update with the historical-max speeds overwritten by the current estimates
UpdateOpMaxIsCurrent(p, a, cur_time, t2) ==
    LET c    == UpdateCounters(p, a)
        up   == EstSpeed(p.AnnounceLast, cur_time, c.ul)
        dn   == EstSpeed(p.AnnounceLast, cur_time, c.dl)
    IN  [ peer |->
            [ p EXCEPT
                !.PeerID     = a.PeerID,
                !.Announces  = p.Announces + 1,
                !.Uploaded   = c.Uploaded,
                !.Downloaded = c.Downloaded,
                !.IP         = IPString(a.IPv4),
                !.Port       = a.Port,
                !.Corrupt    = a.Corrupt,
                !.Left       = a.Left,
                !.SpeedUP    = up,
                !.SpeedDN    = dn,
                !.SpeedUPMax = up,
                !.SpeedDNMax = dn,
                !.TotalTime  = UpdateTotalTime(p, t2),
                !.Active     = UpdateActive(p, a) ],
          ul |-> c.ul,
          dl |-> c.dl ]

\* The whole method: p is the record on entry, a the announce, cur_time the
\* clock read at line 49 and t2 the clock read at line 88.
UpdateOp(p, a, cur_time, t2) ==
    LET c    == UpdateCounters(p, a)
        up   == EstSpeed(p.AnnounceLast, cur_time, c.ul)
        dn   == EstSpeed(p.AnnounceLast, cur_time, c.dl)
    IN  [ peer |->
            [ p EXCEPT
                !.PeerID     = a.PeerID,
                !.Announces  = p.Announces + 1,
                !.Uploaded   = c.Uploaded,
                !.Downloaded = c.Downloaded,
                !.IP         = IPString(a.IPv4),
                !.Port       = a.Port,
                !.Corrupt    = a.Corrupt,
                !.Left       = a.Left,
                !.SpeedUP    = up,
                !.SpeedDN    = dn,
                !.SpeedUPMax = IF SpeedGT(up, p.SpeedUPMax) THEN up ELSE p.SpeedUPMax,
                !.SpeedDNMax = IF SpeedGT(dn, p.SpeedDNMax) THEN dn ELSE p.SpeedDNMax,
                !.TotalTime  = UpdateTotalTime(p, t2),
                !.Active     = UpdateActive(p, a) ],
          ul |-> c.ul,
          dl |-> c.dl ]

(***************************************************************************)
(* Peer.IsHNR, Peer.IsSeeder, Peer.AddHNR.                                 *)
(***************************************************************************)
IsHNR(p) == p.Downloaded > HNRMinBytes /\ p.Left > 0 /\ p.TotalTime < HNRThreshold

IsSeeder(p) == p.Left = 0

\* the command AddHNR queues
HNRCommand(p, torrent_id) == <<"SADD", <<"t:u:hnr", p.UserID>>, torrent_id>>

(***************************************************************************)
(* The announces a sequential caller makes.                                *)
(***************************************************************************)
NoAnn == [Event |-> "-"]
NoRet == [ul |-> 0, dl |-> 0]

ThePeerID == "peerA"
TheTorrentID == 1

\* (IPv4, Port, Left, Corrupt) of an announce
Profiles ==
    { <<IPv4a, 6881, 7, 0>>, <<IPNil, 0, 0, 3>> }

MkAnn(ev, up, dn, prof, id) ==
    [ Event |-> ev, Uploaded |-> up, Downloaded |-> dn, IPv4 |-> prof[1],
      Port |-> prof[2], Left |-> prof[3], Corrupt |-> prof[4], PeerID |-> id ]

\* (Uploaded, Downloaded) an announce reports
BytePairs == { <<0, 0>>, <<100, 100>>, <<150, 50>>, <<150, 100>> }

Announces ==
    { MkAnn(ev, b[1], b[2], prof, ThePeerID) :
        ev \in Events, b \in BytePairs, prof \in Profiles }

(***************************************************************************)
(* The parts of the state a specification does not use stay as they are    *)
(* here.                                                                   *)
(***************************************************************************)
NoEnc == [skip |-> "-", out |-> <<>>, done |-> FALSE]
NoScrape == [pc |-> "idle"]
NoCheck == [pc |-> "idle"]

IdleSeq ==
    /\ peer = MakePeerDefault(TheTorrentID, ThePeerID, StartTime)
    /\ prev = peer
    /\ lastAnn = NoAnn
    /\ ret = NoRet
    /\ sent = <<>>
    /\ hist = <<>>

IdleCompact == swarm = <<>> /\ enc = NoEnc

IdleScrape == sc = NoScrape

IdleConc == peers = <<>> /\ lock = <<>> /\ th = <<>> /\ serial = <<>>

IdleWL == wl = NoCheck

(***************************************************************************)
(* The sequential specification: one peer, one caller, a clock.            *)
(***************************************************************************)
Init ==
    /\ now = StartTime
    /\ peer \in MakePeer(TheTorrentID, ThePeerID, StartTime)
    /\ prev = peer
    /\ lastAnn = NoAnn
    /\ ret = NoRet
    /\ sent = <<>>
    /\ hist = <<>>
    /\ IdleCompact /\ IdleScrape /\ IdleConc /\ IdleWL

\* the clock advances
Tick ==
    /\ now < MaxTime
    /\ now' = now + 1
    /\ UNCHANGED <<seqVars, compactVars, scrapeVars, concVars, wlVars>>

\* Peer.Update(a) on the peer; t2 is the clock at line 88
UpdateStep(a, t2) ==
    /\ LET r == UpdateOp(peer, a, now, t2)
       IN  /\ peer' = r.peer
           /\ ret' = [ul |-> r.ul, dl |-> r.dl]
    /\ prev' = peer
    /\ lastAnn' = a
    /\ now' = t2

Update(a, t2) ==
    /\ peer.Announces < MaxAnnounces
    /\ t2 <= MaxTime
    /\ UpdateStep(a, t2)
    /\ UNCHANGED <<sent, hist, compactVars, scrapeVars, concVars, wlVars>>

Next ==
    \/ Tick
    \/ \E a \in Announces, t2 \in {now, now + 1} : Update(a, t2)

Spec == Init /\ [][Next]_vars

(***************************************************************************)
(* The history specification: a run of Updates on one peer, each recorded  *)
(* with what it returned.                                                  *)
(***************************************************************************)
HistPairs == { <<100, 50>>, <<150, 50>>, <<140, 50>>, <<150, 0>> }

HistAnnounces ==
    { MkAnn(ev, b[1], b[2], <<IPv4a, 6881, 7, 0>>, ThePeerID) :
        ev \in Events, b \in HistPairs }

InitHist == Init

UpdateRec(a) ==
    /\ Len(hist) < MaxHist
    /\ UpdateStep(a, now)
    /\ hist' = Append(hist, [a |-> a, ul |-> ret'.ul, dl |-> ret'.dl,
                             before |-> peer, after |-> peer'])
    /\ UNCHANGED <<sent, compactVars, scrapeVars, concVars, wlVars>>

NextHist == \E a \in HistAnnounces : UpdateRec(a)

SpecHist == InitHist /\ [][NextHist]_vars

(***************************************************************************)
(* The announce flow around the hit-and-run hook: the handler updates the  *)
(* peer and calls AddHNR for a peer IsHNR reports.                         *)
(***************************************************************************)
\* Peer.AddHNR(r, torrent_id): the connection's queue after the call
AddHNR(queue, p, torrent_id) == Append(queue, HNRCommand(p, torrent_id))

HandleAnnounce(a) ==
    /\ peer.Announces < MaxAnnounces
    /\ UpdateStep(a, now)
    /\ sent' = IF IsHNR(peer') THEN AddHNR(sent, peer', peer'.TorrentID) ELSE sent
    /\ UNCHANGED <<hist, compactVars, scrapeVars, concVars, wlVars>>

NextHNR == \E a \in Announces : HandleAnnounce(a)

SpecHNR == Init /\ [][NextHNR]_vars

(***************************************************************************)
(* MakeCompactPeers over a swarm whose peers have announced.               *)
(***************************************************************************)
\* the bytes of one peer, with the port written low byte first
PeerBytesLittleEndian(p, skip_id) ==
    IF p.Port <= 0 THEN <<>>
    ELSE IF p.PeerID = skip_id THEN <<>>
    ELSE To4(ParseIP(p.IP)) \o <<p.Port % 256, (p.Port \div 256) % 256>>

\* lines 149-158: the bytes one peer adds to the buffer
PeerBytes(p, skip_id) ==
    IF p.Port <= 0 THEN <<>>
    ELSE IF p.PeerID = skip_id THEN <<>>
    ELSE To4(ParseIP(p.IP)) \o <<(p.Port \div 256) % 256, p.Port % 256>>

RECURSIVE MakeCompactPeers(_, _)
MakeCompactPeers(ps, skip_id) ==
    IF ps = <<>> THEN <<>>
    ELSE PeerBytes(Head(ps), skip_id) \o MakeCompactPeers(Tail(ps), skip_id)

SwarmIDs == <<"peerA", "peerB", "peerC", "peerD">>
Ports == {0, 6881, 65535, 65536}

\* the announces of the peer in slot i: its own peer id, any address and port
SwarmAnnounces(i) ==
    { MkAnn(NONE, 0, 0, <<ip, port, 7, 0>>, SwarmIDs[i]) : ip \in NetIPs, port \in Ports }

InitCompact ==
    /\ now = StartTime
    /\ \E n \in 1..MaxPeers :
         swarm = [i \in 1..n |-> MakePeerDefault(TheTorrentID, SwarmIDs[i], StartTime)]
    /\ enc = NoEnc
    /\ IdleSeq /\ IdleScrape /\ IdleConc /\ IdleWL

\* the peer in slot i announces
AnnounceSwarm(i, a) ==
    /\ ~enc.done
    /\ swarm[i].Announces < MaxSwarmAnnounces
    /\ swarm' = [swarm EXCEPT ![i] = UpdateOp(swarm[i], a, now, now).peer]
    /\ UNCHANGED <<enc, now, seqVars, scrapeVars, concVars, wlVars>>

\* MakeCompactPeers(swarm, skip_id)
Encode(skip_id) ==
    /\ ~enc.done
    /\ enc' = [skip |-> skip_id, out |-> MakeCompactPeers(swarm, skip_id), done |-> TRUE]
    /\ UNCHANGED <<swarm, now, seqVars, scrapeVars, concVars, wlVars>>

NextCompact ==
    \/ \E i \in 1..Len(swarm) : \E a \in SwarmAnnounces(i) : AnnounceSwarm(i, a)
    \/ \E skip_id \in {"", "peerA", "peerB"} : Encode(skip_id)

SpecCompact == InitCompact /\ [][NextCompact]_vars

(***************************************************************************)
(* The scrape handler.                                                     *)
(***************************************************************************)
\* width of an infohash in bytes (20 in the tracker, scaled down here)
InfoHashLen == 2

\* model.InfoHashFromString: the bytes of the string copied into the array
InfoHashFromString(str) ==
    [i \in 1..InfoHashLen |-> IF i <= Len(str) THEN str[i] ELSE 0]

HexDigits == <<"0", "1", "2", "3", "4", "5", "6", "7", "8", "9", "a", "b", "c", "d", "e", "f">>

\* InfoHash.String: the lowercase hex form
RECURSIVE HexOf(_)
HexOf(bytes) ==
    IF bytes = <<>> THEN <<>>
    ELSE <<HexDigits[(Head(bytes) \div 16) + 1], HexDigits[(Head(bytes) % 16) + 1]>>
         \o HexOf(Tail(bytes))

InfoHashString(ih) == HexOf(ih)

\* the infohash strings a query carries
RawHashes == { <<171, 1>>, <<171, 2>>, <<18, 52>> }

\* the registries a request may meet: the torrents present, each with its
\* TotalCompleted
Registries ==
    { [ih \in known |-> ih[2]] : known \in SUBSET {InfoHashFromString(h) : h \in RawHashes} }

\* Peers.GetN(ih, 100) of the peer store: the Left of each peer of the swarm
StorePeers(ih) == IF ih[2] = 1 THEN <<0, 7>> ELSE <<0, 0, 7>>

\* Swarm.Counts: seeders and leechers
Counts(lefts) ==
    << Cardinality({i \in 1..Len(lefts) : lefts[i] = 0}),
       Cardinality({i \in 1..Len(lefts) : lefts[i] # 0}) >>

\* the loop body with an entry written for an unknown torrent too
ScrapeOneNoSkip(st, str, k, reg, fail) ==
    LET ih == InfoHashFromString(str)
        c  == Counts(StorePeers(ih))
    IN  [ calls |-> st.calls \o << <<"Torrents.Get", ih>>, <<"Peers.GetN", ih, 100>> >>,
          resp  |-> {e \in st.resp : e[1] # InfoHashString(ih)} \cup
                    { << InfoHashString(ih),
                         [complete |-> c[1], downloaded |-> 0, incomplete |-> c[2]] >> } ]

\* lines 35-53: one round of the loop, for the k-th infohash string; fail
\* holds the rounds whose Peers.GetN returns an error
ScrapeOne(st, str, k, reg, fail) ==
    LET ih     == InfoHashFromString(str)
        calls1 == Append(st.calls, <<"Torrents.Get", ih>>)
        calls2 == Append(calls1, <<"Peers.GetN", ih, 100>>)
        c      == Counts(StorePeers(ih))
    IN  IF ih \notin DOMAIN reg THEN [calls |-> calls1, resp |-> st.resp]
        ELSE IF k \in fail THEN [calls |-> calls2, resp |-> st.resp]
        ELSE [ calls |-> calls2,
               resp  |-> {e \in st.resp : e[1] # InfoHashString(ih)} \cup
                         { << InfoHashString(ih),
                              [complete |-> c[1], downloaded |-> reg[ih],
                               incomplete |-> c[2]] >> } ]

RECURSIVE ScrapeLoop(_, _, _, _, _)
ScrapeLoop(st, hashes, k, reg, fail) ==
    IF k > Len(hashes) THEN st
    ELSE ScrapeLoop(ScrapeOne(st, hashes[k], k, reg, fail), hashes, k + 1, reg, fail)

\* the empty-query test left out
NoInfoHashesNever(hashes) == FALSE

\* line 28
NoInfoHashes(hashes) == Len(hashes) = 0

msgMalformedRequest == "msgMalformedRequest"
NoResponse == [status |-> "none", body |-> <<>>]

\* oops(c, msg): the failure response
Oops(msg) == [status |-> "failure", body |-> <<msg>>]

\* bencode.NewEncoder(&buf).Encode(resp), then c.String(http.StatusOK, ...)
Encoded(resp) == [status |-> "StatusOK", body |-> <<"d", resp, "e">>]

\* What the handler leaves behind for a request: the lookups it made, the
\* dictionary it built and the response it wrote.  valid is the outcome of
\* preFlightChecks, parseErr that of queryStringParser, encErr that of the
\* encoder.
ScrapeResult(valid, parseErr, hashes, reg, fail, encErr) ==
    LET none == [calls |-> <<>>, resp |-> {}]
        loop == ScrapeLoop(none, hashes, 1, reg, fail)
    IN  IF ~valid THEN [calls |-> <<>>, resp |-> {}, out |-> NoResponse]
        ELSE IF parseErr THEN [calls |-> <<>>, resp |-> {}, out |-> Oops(msgMalformedRequest)]
        ELSE IF NoInfoHashes(hashes)
             THEN [calls |-> <<>>, resp |-> {}, out |-> Oops(msgMalformedRequest)]
        ELSE [ calls |-> loop.calls, resp |-> loop.resp,
               out |-> IF encErr THEN NoResponse ELSE Encoded(loop.resp) ]

RECURSIVE SeqsUpTo(_, _)
SeqsUpTo(S, n) ==
    IF n = 0 THEN {<<>>}
    ELSE LET shorter == SeqsUpTo(S, n - 1)
         IN  shorter \cup {Append(q, x) : q \in shorter, x \in S}

InitScrape ==
    /\ now = StartTime
    /\ \E valid \in BOOLEAN, parseErr \in BOOLEAN, hashes \in SeqsUpTo(RawHashes, MaxHashes),
          reg \in Registries :
         sc = [ pc |-> "request", valid |-> valid, parseErr |-> parseErr,
                hashes |-> IF parseErr THEN <<>> ELSE hashes, reg |-> reg ]
    /\ IdleSeq /\ IdleCompact /\ IdleConc /\ IdleWL

\* BitTorrentHandler.scrape(c)
Scrape(fail, encErr) ==
    /\ sc.pc = "request"
    /\ LET r == ScrapeResult(sc.valid, sc.parseErr, sc.hashes, sc.reg, fail, encErr)
       IN  sc' = [ pc |-> "done", valid |-> sc.valid, parseErr |-> sc.parseErr,
                   hashes |-> sc.hashes, reg |-> sc.reg, fail |-> fail,
                   encErr |-> encErr, calls |-> r.calls, resp |-> r.resp, out |-> r.out ]
    /\ UNCHANGED <<now, seqVars, compactVars, concVars, wlVars>>

NextScrape ==
    \E fail \in SUBSET (1..Len(sc.hashes)), encErr \in BOOLEAN : Scrape(fail, encErr)

SpecScrape == InitScrape /\ [][NextScrape]_vars

(***************************************************************************)
(* Concurrent callers of Update and SetUserID on shared peers, one source  *)
(* statement group at a time.                                              *)
(***************************************************************************)
ConcPeerIDs == {"peerA", "peerB"}
ConcThreads == {1, 2}

\* what a caller asks for: an Update with an announce, or a SetUserID
ConcCalls(id) ==
    { [op |-> "Update", a |-> MkAnn(b[1], b[2], b[3], <<IPv4a, 6881, 7, 0>>, id)] :
        b \in { <<NONE, 150, 100>>, <<STOPPED, 150, 50>> } }
    \cup { [op |-> "SetUserID", user_id |-> 7, username |-> "bob"] }

IdleThread(n) == [pc |-> "idle", n |-> n, serialRet |-> TRUE]

InitConc ==
    /\ now = StartTime
    /\ peers \in [ConcPeerIDs -> {q \in MakePeerLoaded(TheTorrentID, "-", StartTime) :
                                    q.Active /\ q.AnnounceLast = 1}]
    /\ \A id \in ConcPeerIDs : peers[id].PeerID = "-"
    /\ serial = peers
    /\ lock = [id \in ConcPeerIDs |-> 0]
    /\ th = [t \in ConcThreads |-> IdleThread(0)]
    /\ IdleSeq /\ IdleCompact /\ IdleScrape /\ IdleWL

\* a mutex that never makes a caller wait
CanLockAlways(id) == TRUE

\* peer.Lock() returns once no caller holds the peer's mutex
CanLock(id) == lock[id] = 0

\* a caller starts a call on the peer id
Call(t, id, c) ==
    /\ th[t].pc = "idle"
    /\ th[t].n < MaxOps
    /\ th' = [th EXCEPT ![t] =
                [ pc |-> "Lock", n |-> th[t].n, serialRet |-> TRUE, id |-> id, c |-> c,
                  cur_time |-> 0, t2 |-> 0, ul |-> 0, dl |-> 0 ]]
    /\ UNCHANGED <<peers, lock, serial, now, seqVars, compactVars, scrapeVars, wlVars>>

\* lines 47 and 101
Lock(t) ==
    /\ th[t].pc = "Lock"
    /\ CanLock(th[t].id)
    /\ lock' = [lock EXCEPT ![th[t].id] = t]
    /\ th' = [th EXCEPT ![t].pc = IF th[t].c.op = "Update" THEN "L49" ELSE "L103"]
    /\ UNCHANGED <<peers, serial, now, seqVars, compactVars, scrapeVars, wlVars>>

\* lines 49-51
L49(t) ==
    /\ th[t].pc = "L49"
    /\ peers' = [peers EXCEPT ![th[t].id].PeerID = th[t].c.a.PeerID,
                              ![th[t].id].Announces = peers[th[t].id].Announces + 1]
    /\ th' = [th EXCEPT ![t].pc = "L56", ![t].cur_time = now]
    /\ UNCHANGED <<lock, serial, now, seqVars, compactVars, scrapeVars, wlVars>>

\* lines 53-72
L56(t) ==
    /\ th[t].pc = "L56"
    /\ LET c == UpdateCounters(peers[th[t].id], th[t].c.a)
       IN  /\ peers' = [peers EXCEPT ![th[t].id].Uploaded = c.Uploaded,
                                     ![th[t].id].Downloaded = c.Downloaded]
           /\ th' = [th EXCEPT ![t].pc = "L73", ![t].ul = c.ul, ![t].dl = c.dl]
    /\ UNCHANGED <<lock, serial, now, seqVars, compactVars, scrapeVars, wlVars>>

\* lines 73-84
L73(t) ==
    /\ th[t].pc = "L73"
    /\ LET q  == peers[th[t].id]
           up == EstSpeed(q.AnnounceLast, th[t].cur_time, th[t].ul)
           dn == EstSpeed(q.AnnounceLast, th[t].cur_time, th[t].dl)
       IN  peers' = [peers EXCEPT
                       ![th[t].id].IP = IPString(th[t].c.a.IPv4),
                       ![th[t].id].Port = th[t].c.a.Port,
                       ![th[t].id].Corrupt = th[t].c.a.Corrupt,
                       ![th[t].id].Left = th[t].c.a.Left,
                       ![th[t].id].SpeedUP = up,
                       ![th[t].id].SpeedDN = dn,
                       ![th[t].id].SpeedUPMax = IF SpeedGT(up, q.SpeedUPMax) THEN up ELSE q.SpeedUPMax,
                       ![th[t].id].SpeedDNMax = IF SpeedGT(dn, q.SpeedDNMax) THEN dn ELSE q.SpeedDNMax]
    /\ th' = [th EXCEPT ![t].pc = "L87"]
    /\ UNCHANGED <<lock, serial, now, seqVars, compactVars, scrapeVars, wlVars>>

\* lines 86-93
L87(t) ==
    /\ th[t].pc = "L87"
    /\ peers' = [peers EXCEPT ![th[t].id].TotalTime = UpdateTotalTime(peers[th[t].id], now)]
    /\ th' = [th EXCEPT ![t].pc = "L94", ![t].t2 = now]
    /\ UNCHANGED <<lock, serial, now, seqVars, compactVars, scrapeVars, wlVars>>

\* lines 94-97 and the deferred Unlock: the call returns
L94(t) ==
    /\ th[t].pc = "L94"
    /\ peers' = [peers EXCEPT ![th[t].id].Active = UpdateActive(peers[th[t].id], th[t].c.a)]
    /\ lock' = [lock EXCEPT ![th[t].id] = 0]
    /\ LET r == UpdateOp(serial[th[t].id], th[t].c.a, th[t].cur_time, th[t].t2)
       IN  /\ serial' = [serial EXCEPT ![th[t].id] = r.peer]
           /\ th' = [th EXCEPT ![t] =
                       [ pc |-> "idle", n |-> th[t].n + 1,
                         serialRet |-> <<th[t].ul, th[t].dl>> = <<r.ul, r.dl>> ]]
    /\ UNCHANGED <<now, seqVars, compactVars, scrapeVars, wlVars>>

\* line 103
L103(t) ==
    /\ th[t].pc = "L103"
    /\ peers' = [peers EXCEPT ![th[t].id].UserID = th[t].c.user_id]
    /\ th' = [th EXCEPT ![t].pc = "L104"]
    /\ UNCHANGED <<lock, serial, now, seqVars, compactVars, scrapeVars, wlVars>>

\* line 104 and the deferred Unlock: the call returns
L104(t) ==
    /\ th[t].pc = "L104"
    /\ peers' = [peers EXCEPT ![th[t].id].Username = th[t].c.username]
    /\ lock' = [lock EXCEPT ![th[t].id] = 0]
    /\ serial' = [serial EXCEPT ![th[t].id].UserID = th[t].c.user_id,
                                ![th[t].id].Username = th[t].c.username]
    /\ th' = [th EXCEPT ![t] = IdleThread(th[t].n + 1)]
    /\ UNCHANGED <<now, seqVars, compactVars, scrapeVars, wlVars>>

NextConc ==
    \/ Tick
    \/ \E t \in ConcThreads, id \in ConcPeerIDs : \E c \in ConcCalls(id) : Call(t, id, c)
    \/ \E t \in ConcThreads : Lock(t)
    \/ \E t \in ConcThreads : L49(t)
    \/ \E t \in ConcThreads : L56(t)
    \/ \E t \in ConcThreads : L73(t)
    \/ \E t \in ConcThreads : L87(t)
    \/ \E t \in ConcThreads : L94(t)
    \/ \E t \in ConcThreads : L103(t)
    \/ \E t \in ConcThreads : L104(t)

SpecConc == InitConc /\ [][NextConc]_vars

(***************************************************************************)
(* Peer.Sync next to a caller of Update and SetUserID on the same peer.    *)
(* Sync takes no lock: each field it hands to r.Send is read on its own,   *)
(* in argument order, at whatever point of a concurrent call it runs.      *)
(***************************************************************************)
\* the fields Sync reads, in the order of the arguments of r.Send
SyncFields ==
    << "IP", "Port", "Left", "AnnounceFirst", "AnnounceLast", "TotalTime",
       "SpeedUP", "SpeedDN", "SpeedUPMax", "SpeedDNMax", "Active", "Uploaded",
       "Downloaded", "Corrupt", "Username", "UserID", "PeerID", "TorrentID" >>

\* the values Sync sends for a peer record read at one instant
SnapshotOf(p) == [i \in 1..Len(SyncFields) |-> p[SyncFields[i]]]

SyncPeerID == "peerA"
Writer == 1
Syncer == 2

InitSync ==
    /\ now = StartTime
    /\ peers \in [{SyncPeerID} -> {q \in MakePeerLoaded(TheTorrentID, "-", StartTime) :
                                     q.Active /\ q.AnnounceLast = 1}]
    /\ serial = peers
    /\ lock = [id \in {SyncPeerID} |-> 0]
    /\ th = [t \in {Writer, Syncer} |-> IdleThread(0)]
    /\ IdleSeq /\ IdleCompact /\ IdleScrape /\ IdleWL

\* a caller enters peer.Sync(r); clean collects the snapshots of the peer as
\* it stands between calls while the Sync runs
SyncCall(t, id) ==
    /\ th[t].pc = "idle"
    /\ th[t].n < MaxOps
    /\ th' = [th EXCEPT ![t] =
                [ pc |-> "Sync", n |-> th[t].n, serialRet |-> TRUE, id |-> id,
                  snap |-> <<>>, clean |-> {SnapshotOf(serial[id])} ]]
    /\ UNCHANGED <<peers, lock, serial, now, seqVars, compactVars, scrapeVars, wlVars>>

\* lines 110-127: the next argument of r.Send is evaluated
SyncRead(t) ==
    /\ th[t].pc = "Sync"
    /\ Len(th[t].snap) < Len(SyncFields)
    /\ th' = [th EXCEPT
                ![t].snap = Append(th[t].snap,
                                   peers[th[t].id][SyncFields[Len(th[t].snap) + 1]]),
                ![t].clean = th[t].clean \cup {SnapshotOf(serial[th[t].id])}]
    /\ UNCHANGED <<peers, lock, serial, now, seqVars, compactVars, scrapeVars, wlVars>>

\* line 108: r.Send queues the HMSET and Sync returns; holder and calls note
\* the caller inside a call on the peer at that moment, if any, and the calls
\* that caller has returned from
SyncSend(t) ==
    /\ th[t].pc = "Sync"
    /\ Len(th[t].snap) = Len(SyncFields)
    /\ sent' = Append(sent, <<"HMSET", th[t].id, th[t].snap>>)
    /\ th' = [th EXCEPT ![t] =
                [ pc |-> "idle", n |-> th[t].n + 1, serialRet |-> TRUE,
                  id |-> th[t].id, snap |-> th[t].snap,
                  clean |-> th[t].clean \cup {SnapshotOf(serial[th[t].id])},
                  holder |-> lock[th[t].id],
                  calls |-> IF lock[th[t].id] = 0 THEN 0 ELSE th[lock[th[t].id]].n ]]
    /\ UNCHANGED <<peer, prev, lastAnn, ret, hist, peers, lock, serial, now,
                   compactVars, scrapeVars, wlVars>>

NextSync ==
    \/ Tick
    \/ \E c \in ConcCalls(SyncPeerID) : Call(Writer, SyncPeerID, c)
    \/ Lock(Writer)
    \/ L49(Writer)
    \/ L56(Writer)
    \/ L73(Writer)
    \/ L87(Writer)
    \/ L94(Writer)
    \/ L103(Writer)
    \/ L104(Writer)
    \/ SyncCall(Syncer, SyncPeerID)
    \/ SyncRead(Syncer)
    \/ SyncSend(Syncer)

SpecSync == InitSync /\ [][NextSync]_vars

(***************************************************************************)
(* The whitelist validator.  A string is the sequence of its characters.   *)
(***************************************************************************)
\* client prefixes a whitelist may hold
Prefixes == { <<"-", "A", "Z">>, <<"-", "a", "z">>, <<"-", "U", "T">>, <<>> }

\* peer ids of announcing clients
PeerIDStrings ==
    { <<"-", "A", "Z", "2">>, <<"-", "X", "X", "0">>, <<"-", "a", "z", "2">>,
      <<"-", "A">>, <<"A", "Z", "-">>, <<>> }

\* the lower-case form of a character
ToLower(ch) == IF ch = "A" THEN "a" ELSE IF ch = "Z" THEN "z"
               ELSE IF ch = "U" THEN "u" ELSE IF ch = "T" THEN "t"
               ELSE IF ch = "X" THEN "x" ELSE ch

\* strings.EqualFold-style prefix test: the comparison ignores case
HasPrefixFold(str, prefix) ==
    /\ Len(str) >= Len(prefix)
    /\ [k \in 1..Len(prefix) |-> ToLower(str[k])] = [k \in 1..Len(prefix) |-> ToLower(prefix[k])]

\* strings.HasPrefix(s, prefix): len(s) >= len(prefix) && s[:len(prefix)] == prefix
HasPrefix(str, prefix) ==
    /\ Len(str) >= Len(prefix)
    /\ SubSeq(str, 1, Len(prefix)) = prefix

\* Tracker.IsValidClient: the loop over t.Whitelist, returning at the first match
RECURSIVE IsValidClient(_, _)
IsValidClient(whitelist, peer_id) ==
    IF whitelist = <<>> THEN FALSE
    ELSE IF HasPrefix(peer_id, Head(whitelist)) THEN TRUE
    ELSE IsValidClient(Tail(whitelist), peer_id)

InitWL ==
    /\ now = StartTime
    /\ \E w \in SeqsUpTo(Prefixes, MaxPrefixes) :
         wl = [pc |-> "loaded", Whitelist |-> w, loaded |-> w, peer_id |-> <<>>, valid |-> FALSE]
    /\ IdleSeq /\ IdleCompact /\ IdleScrape /\ IdleConc

\* t.IsValidClient(r, peer_id)
CheckClient(peer_id) ==
    /\ wl.pc \in {"loaded", "checked"}
    /\ wl' = [wl EXCEPT !.pc = "checked", !.peer_id = peer_id,
                        !.valid = IsValidClient(wl.Whitelist, peer_id)]
    /\ UNCHANGED <<now, seqVars, compactVars, scrapeVars, concVars>>

NextWL == \E peer_id \in PeerIDStrings : CheckClient(peer_id)

SpecWL == InitWL /\ [][NextWL]_vars

(***************************************************************************)
(* Claims.                                                                 *)
(***************************************************************************)
\* the three announces of C1: stored uploaded 0, then uploaded = 100 with
\* event started, 150 and 140
ScenarioC1 ==
    /\ Len(hist) = 3
    /\ hist[1].before.Uploaded = 0
    /\ hist[1].a.Event = STARTED /\ hist[1].a.Uploaded = 100
    /\ hist[2].a.Uploaded = 150
    /\ hist[3].a.Uploaded = 140

HistDeltasUL == <<hist[1].ul, hist[2].ul, hist[3].ul>>

\* C1 as stated: the three Updates return uploaded deltas 100, 50 and 0.
C1_AsClaimed == ScenarioC1 => HistDeltasUL = <<100, 50, 0>>

\* C1, amended: the three Updates return uploaded deltas 0 (the started
\* announce is the baseline), 50 and 0, the second announce being no started
\* event and reporting no lower downloaded than the first.
C1_DeltaAccounting ==
    ( /\ ScenarioC1
      /\ hist[2].a.Event # STARTED
      /\ hist[2].a.Downloaded >= hist[1].a.Downloaded )
    => HistDeltasUL = <<0, 50, 0>>

C1_Witness ==
    /\ ScenarioC1
    /\ hist[2].a.Event = NONE /\ hist[3].a.Event = NONE
    /\ HistDeltasUL = <<0, 50, 0>>
    /\ peer.Uploaded = 140

\* the last Update was a restart signal: a started event, or a counter
\* reported below the stored one
RestartSignal ==
    \/ lastAnn.Event = STARTED
    \/ lastAnn.Uploaded < prev.Uploaded
    \/ lastAnn.Downloaded < prev.Downloaded

\* C2: an Update that is a restart signal returns deltas 0 and stores the
\* reported counters; and a returned delta is never a wrapped subtraction:
\* a nonzero delta is reported - stored with reported > stored.
C2_RestartBaseline ==
    lastAnn # NoAnn =>
      /\ RestartSignal =>
           /\ ret = NoRet
           /\ peer.Uploaded = lastAnn.Uploaded
           /\ peer.Downloaded = lastAnn.Downloaded
      /\ ret.ul # 0 =>
           lastAnn.Uploaded > prev.Uploaded /\ ret.ul = lastAnn.Uploaded - prev.Uploaded
      /\ ret.dl # 0 =>
           lastAnn.Downloaded > prev.Downloaded /\ ret.dl = lastAnn.Downloaded - prev.Downloaded

C2_Witness ==
    /\ lastAnn # NoAnn
    /\ lastAnn.Event = NONE
    /\ lastAnn.Uploaded > prev.Uploaded
    /\ lastAnn.Downloaded < prev.Downloaded
    /\ ret = NoRet
    /\ peer.Uploaded = lastAnn.Uploaded /\ peer.Downloaded = lastAnn.Downloaded

\* C6 as stated: IsHNR is true iff downloaded >= the minimum, left > 0 and
\* the active seconds are below the threshold.
C6_IsHNRIff ==
    IsHNR(peer) <=>
      (peer.Downloaded >= HNRMinBytes /\ peer.Left > 0 /\ peer.TotalTime < HNRThreshold)

\* C7 as stated: over repeated announces of a peer that IsHNR reports, the
\* connection is sent one notification for a (user, torrent), never a second.
C7_NotifiedOnce ==
    \A i, j \in 1..Len(sent) : sent[i] = sent[j] => i = j

\* C8: after an Update with event stopped the peer is inactive, and it is
\* still inactive after every later Update up to the next announce with a
\* started or none event.
C8_InactiveAfterStop ==
    \A i, j \in 1..Len(hist) :
      ( /\ i <= j
        /\ hist[i].a.Event = STOPPED
        /\ \A k \in (i + 1)..j : hist[k].a.Event \notin {STARTED, NONE} )
      => ~hist[j].after.Active

C8_Witness ==
    /\ Len(hist) = 3
    /\ hist[1].before.Active
    /\ hist[1].a.Event = STOPPED
    /\ hist[2].a.Event = COMPLETED
    /\ hist[3].a.Event = COMPLETED
    /\ ~hist[1].after.Active /\ ~hist[3].after.Active /\ ~peer.Active

\* what a compact peer list decodes to: per 6 bytes, the address in its
\* string form and the big-endian port
DecodeCompact(bytes) ==
    [ i \in 1..(Len(bytes) \div 6) |->
        << IPString(SubSeq(bytes, 6 * i - 5, 6 * i - 2)),
           bytes[6 * i - 1] * 256 + bytes[6 * i] >> ]

RECURSIVE BagOfSeq(_)
BagOfSeq(q) == IF q = <<>> THEN EmptyBag ELSE SetToBag({Head(q)}) (+) BagOfSeq(Tail(q))

SwarmPairs == [i \in 1..Len(swarm) |-> <<swarm[i].IP, swarm[i].Port>>]

\* every peer of the swarm has port > 0, an IPv4 address and another id than
\* the skip id
AllValid ==
    \A i \in 1..Len(swarm) :
      swarm[i].Port > 0 /\ swarm[i].IP[1] = "dotted" /\ swarm[i].PeerID # enc.skip

\* C4 as stated: the bytes MakeCompactPeers returns are a multiple of 6 long,
\* whatever the peers' stored addresses.
C4_MultipleOfSix == enc.done => Len(enc.out) % 6 = 0

\* C5 as stated: N valid peers encode to 6*N bytes that decode to the same
\* (IP, port) multiset, for every port the record holds.
C5_AsClaimed ==
    (enc.done /\ AllValid) =>
      /\ Len(enc.out) = 6 * Len(swarm)
      /\ BagOfSeq(DecodeCompact(enc.out)) = BagOfSeq(SwarmPairs)

\* C5, amended: N valid peers whose ports are at most 65535 encode to 6*N
\* bytes that decode to the same (IP, port) multiset.
C5_RoundTrip ==
    (enc.done /\ AllValid /\ \A i \in 1..Len(swarm) : swarm[i].Port <= 65535) =>
      /\ Len(enc.out) = 6 * Len(swarm)
      /\ BagOfSeq(DecodeCompact(enc.out)) = BagOfSeq(SwarmPairs)

C5_Witness ==
    /\ enc.done /\ AllValid
    /\ Len(swarm) = 2 /\ Len(enc.out) = 12
    /\ swarm[1].Port = 65535 /\ swarm[2].Port = 6881
    /\ swarm[1].IP # swarm[2].IP
    /\ BagOfSeq(DecodeCompact(enc.out)) = BagOfSeq(SwarmPairs)

\* the handler ran its loop: the request passed the pre-flight checks and the
\* parser and the query was not rejected
ScrapeServed == sc.pc = "done" /\ sc.valid /\ ~sc.parseErr

RespKeys == {e[1] : e \in sc.resp}

\* C9: a scrape whose parsed query holds no infohash is answered with the
\* malformed-request failure, with no Torrents.Get or Peers.GetN call made and
\* no success body written.
C9_EmptyRejected ==
    (ScrapeServed /\ Len(sc.hashes) = 0) =>
      /\ sc.out = Oops(msgMalformedRequest)
      /\ sc.calls = <<>>
      /\ sc.resp = {}

C9_Witness ==
    /\ ScrapeServed /\ Len(sc.hashes) = 0
    /\ DOMAIN sc.reg # {}
    /\ sc.out = Oops(msgMalformedRequest) /\ sc.calls = <<>>

\* C10 as stated: the dictionary holds an entry for exactly the requested
\* infohashes whose torrent is in the registry.
C10_AsClaimed ==
    (ScrapeServed /\ Len(sc.hashes) > 0) =>
      RespKeys = { InfoHashString(InfoHashFromString(sc.hashes[k])) :
                     k \in {j \in 1..Len(sc.hashes) :
                              InfoHashFromString(sc.hashes[j]) \in DOMAIN sc.reg} }

\* C10, amended: the dictionary holds an entry for exactly the requested
\* infohashes whose torrent is in the registry and whose peers Peers.GetN
\* returned without an error; the others are absent and the request is served.
C10_PartialResolution ==
    (ScrapeServed /\ Len(sc.hashes) > 0) =>
      /\ RespKeys = { InfoHashString(InfoHashFromString(sc.hashes[k])) :
                        k \in {j \in 1..Len(sc.hashes) :
                                 /\ InfoHashFromString(sc.hashes[j]) \in DOMAIN sc.reg
                                 /\ j \notin sc.fail} }
      /\ Cardinality(sc.resp) = Cardinality(RespKeys)
      /\ sc.out # Oops(msgMalformedRequest)
      /\ ~sc.encErr => sc.out = Encoded(sc.resp)

C10_Witness ==
    /\ ScrapeServed /\ Len(sc.hashes) = 3
    /\ Cardinality({sc.hashes[k] : k \in 1..3}) = 3
    /\ Cardinality({k \in 1..3 : InfoHashFromString(sc.hashes[k]) \notin DOMAIN sc.reg}) = 1
    /\ sc.fail = {} /\ ~sc.encErr
    /\ Cardinality(sc.resp) = 2
    /\ sc.out.status = "StatusOK"

\* C3: the calls on a peer are linearized: whenever no caller holds a peer's
\* mutex the peer equals the record the calls that have returned on it
\* produce when run one after the other, and each Update returned the deltas
\* of that serial run.
C3_Linearized ==
    /\ \A id \in DOMAIN peers : lock[id] = 0 => peers[id] = serial[id]
    /\ \A t \in DOMAIN th : th[t].pc = "idle" => th[t].serialRet

\* two callers have each returned from an Update of the same peer, the later
\* of them a stopped announce, and the peer is the serial run's record
C3_Witness ==
    /\ DOMAIN th = ConcThreads
    /\ \A t \in ConcThreads : th[t].pc = "idle" /\ th[t].n = 1
    /\ \A id \in ConcPeerIDs : lock[id] = 0
    /\ peers["peerA"].Announces = 2
    /\ peers["peerA"] = serial["peerA"]
    /\ ~peers["peerA"].Active /\ peers["peerA"].TotalTime > 0

\* prefix is a literal prefix of str: character for character, case included
LiteralPrefix(prefix, str) ==
    /\ Len(prefix) <= Len(str)
    /\ \A k \in 1..Len(prefix) : str[k] = prefix[k]

\* C11: IsValidClient returns true iff some whitelist prefix is a literal,
\* case-sensitive prefix of the peer id; it returns false for every peer id
\* when the whitelist is empty; and the whitelist is as it was loaded.
C11_WhitelistPrefix ==
    wl.pc = "checked" =>
      /\ wl.valid <=> \E i \in 1..Len(wl.Whitelist) : LiteralPrefix(wl.Whitelist[i], wl.peer_id)
      /\ wl.Whitelist = <<>> => ~wl.valid
      /\ wl.Whitelist = wl.loaded

\* the second prefix of the whitelist matches, the first differs from the
\* peer id in case only
C11_Witness ==
    /\ wl.pc = "checked"
    /\ wl.Whitelist = << <<"-", "a", "z">>, <<"-", "A", "Z">> >>
    /\ wl.peer_id = <<"-", "A", "Z", "2">>
    /\ wl.valid

\* a peer id that differs from the only prefix in case is turned away
C11_WitnessRejected ==
    /\ wl.pc = "checked"
    /\ wl.Whitelist = << <<"-", "A", "Z">> >>
    /\ wl.peer_id = <<"-", "a", "z", "2">>
    /\ ~wl.valid

\* the 16-byte form of an address (net.IP.To16)
To16(ip) == IF Len(ip) = 4 THEN V4InV6Prefix \o ip ELSE ip

\* C12: after an Update the stored left, port and corrupt are the ones the
\* announce reported and the stored IP is the string of the reported address
\* and denotes that address, whatever the event and the delta branch; and
\* IsSeeder is true iff the stored left is 0.
C12_OverwrittenFields ==
    /\ IsSeeder(peer) <=> (peer.Left = 0)
    /\ lastAnn # NoAnn =>
         /\ peer.Left = lastAnn.Left
         /\ peer.Port = lastAnn.Port
         /\ peer.Corrupt = lastAnn.Corrupt
         /\ peer.IP = IPString(lastAnn.IPv4)
         /\ To16(ParseIP(peer.IP)) = To16(lastAnn.IPv4)
         /\ IsSeeder(peer) <=> (lastAnn.Left = 0)

\* a second Update, a started one, replaces all four fields and turns a
\* leecher into a seeder
C12_Witness ==
    /\ peer.Announces = 2
    /\ lastAnn.Event = STARTED
    /\ prev.Left = 7 /\ prev.Port = 6881 /\ prev.Corrupt = 0 /\ prev.IP = IPString(IPv4a)
    /\ peer.Left = 0 /\ peer.Port = 0 /\ peer.Corrupt = 3 /\ peer.IP = IPString(IPNil)
    /\ IsSeeder(peer) /\ ~IsSeeder(prev)

\* Update k of the history is a plain one: no started event, and both
\* reported counters at or above the stored ones
Plain(k) ==
    /\ hist[k].a.Event # STARTED
    /\ hist[k].a.Uploaded >= hist[k].before.Uploaded
    /\ hist[k].a.Downloaded >= hist[k].before.Downloaded

RECURSIVE SumUL(_, _)
SumUL(i, j) == IF i > j THEN 0 ELSE hist[i].ul + SumUL(i + 1, j)

RECURSIVE SumDL(_, _)
SumDL(i, j) == IF i > j THEN 0 ELSE hist[i].dl + SumDL(i + 1, j)

\* C13: a plain Update returns reported - stored for each counter (0 for an
\* unchanged one) and stores the reported counters; over a run of plain
\* Updates the returned deltas add up to the final stored counter minus the
\* counter at the start of the run.
C13_PlainDeltas ==
    /\ \A k \in 1..Len(hist) : Plain(k) =>
         /\ hist[k].ul = hist[k].a.Uploaded - hist[k].before.Uploaded
         /\ hist[k].dl = hist[k].a.Downloaded - hist[k].before.Downloaded
         /\ hist[k].after.Uploaded = hist[k].a.Uploaded
         /\ hist[k].after.Downloaded = hist[k].a.Downloaded
    /\ \A i, j \in 1..Len(hist) : (i <= j /\ \A k \in i..j : Plain(k)) =>
         /\ SumUL(i, j) = hist[j].after.Uploaded - hist[i].before.Uploaded
         /\ SumDL(i, j) = hist[j].after.Downloaded - hist[i].before.Downloaded

\* a run of three plain Updates: uploaded 0 -> 100 -> 140 -> 150, downloaded
\* 0 -> 50 -> 50 -> 50, the last one with an unchanged downloaded
C13_Witness ==
    /\ Len(hist) = 3
    /\ \A k \in 1..3 : Plain(k)
    /\ hist[1].before.Uploaded = 0 /\ hist[1].before.Downloaded = 0
    /\ <<hist[1].ul, hist[2].ul, hist[3].ul>> = <<100, 40, 10>>
    /\ <<hist[1].dl, hist[2].dl, hist[3].dl>> = <<50, 0, 0>>
    /\ peer.Uploaded = 150 /\ peer.Downloaded = 50
    /\ hist[2].a.Event = COMPLETED /\ hist[3].a.Event = STOPPED

\* the step is an Update of the sequential peer
IsUpdateStep == peer'.Announces = peer.Announces + 1

\* C14: an Update adds the seconds elapsed since the last-announce timestamp
\* (the clock read inside the Update minus the timestamp) to the cumulative
\* active time iff the peer was active on entry, the timestamp is > 0 and the
\* elapsed time is below 4 times the announce interval; an inactive peer, a
\* timestamp of 0, a gap at or above the ceiling and a clock that has not
\* advanced past the timestamp leave the active time unchanged.
C14_ActiveTime ==
    [][ IsUpdateStep =>
          LET elapsed == now' - peer.AnnounceLast
          IN  IF peer.Active /\ peer.AnnounceLast > 0 /\ elapsed > 0
                 /\ elapsed < 4 * AnnInterval
              THEN peer'.TotalTime = peer.TotalTime + elapsed
              ELSE peer'.TotalTime = peer.TotalTime ]_vars

\* two Updates of an active peer whose timestamp is 1: the first at clock 4
\* adds 3 seconds, the second at clock 5 (gap 4, the ceiling) adds none
C14_Witness ==
    /\ peer.Announces = 2
    /\ prev.Active /\ prev.AnnounceLast = 1
    /\ now = 5
    /\ prev.TotalTime = 3 /\ peer.TotalTime = 3

\* Update k of the history was a restart signal: a started event, or a
\* counter reported below the stored one
RestartAt(k) ==
    \/ hist[k].a.Event = STARTED
    \/ hist[k].a.Uploaded < hist[k].before.Uploaded
    \/ hist[k].a.Downloaded < hist[k].before.Downloaded

\* C15: across a sequence of Updates the stored uploaded (resp. downloaded)
\* counter is lower after an Update than before it only when that announce
\* was a restart signal.
C15_DecreaseOnlyOnRestart ==
    \A k \in 1..Len(hist) :
      ( \/ hist[k].after.Uploaded < hist[k].before.Uploaded
        \/ hist[k].after.Downloaded < hist[k].before.Downloaded )
      => RestartAt(k)

\* uploaded falls 150 -> 140 on an announce with no event, then downloaded
\* falls 50 -> 0 on a completed announce that reports a higher uploaded
C15_Witness ==
    /\ Len(hist) = 3
    /\ hist[2].a.Event = NONE
    /\ hist[2].before.Uploaded = 150 /\ hist[2].after.Uploaded = 140
    /\ hist[3].a.Event = COMPLETED
    /\ hist[3].before.Downloaded = 50 /\ hist[3].after.Downloaded = 0
    /\ hist[3].after.Uploaded = 150
    /\ RestartAt(2) /\ RestartAt(3)

\* the peers of the swarm MakeCompactPeers does not skip, in input order
Advertised == SelectSeq(swarm, LAMBDA p : p.Port > 0 /\ p.PeerID # enc.skip)

\* C16 as stated: no bytes are emitted for a peer with port 0 or with the
\* skip id, and the output is one 6-byte group per other peer, in the order
\* of the input slice: group k holds the address and the (16-bit) port of the
\* k-th peer that is not skipped; a default MakePeer record is not among them.
C16_SkipAndOrder ==
    enc.done =>
      /\ Len(enc.out) = 6 * Len(Advertised)
      /\ \A k \in 1..Len(Advertised) :
           /\ k <= Len(DecodeCompact(enc.out))
           /\ DecodeCompact(enc.out)[k] = <<Advertised[k].IP, Advertised[k].Port % 65536>>
      /\ \A i \in 1..Len(swarm) :
           swarm[i].Announces = 0 => PeerBytes(swarm[i], enc.skip) = <<>>

\* a >= b for speeds
SpeedGE(a, b) == a[1] * b[2] >= b[1] * a[2]

\* C17: after every Update the historical-max upload speed is at least the
\* current upload speed and at least what it was before the Update, likewise
\* for download; the current speed is the estimate over the delta this Update
\* returns and the time from the last-announce timestamp to the clock read on
\* entry.
C17_MaxSpeed ==
    [][ IsUpdateStep =>
          /\ peer'.SpeedUP = EstSpeed(peer.AnnounceLast, now, ret'.ul)
          /\ peer'.SpeedDN = EstSpeed(peer.AnnounceLast, now, ret'.dl)
          /\ SpeedGE(peer'.SpeedUPMax, peer'.SpeedUP)
          /\ SpeedGE(peer'.SpeedUPMax, peer.SpeedUPMax)
          /\ SpeedGE(peer'.SpeedDNMax, peer'.SpeedDN)
          /\ SpeedGE(peer'.SpeedDNMax, peer.SpeedDNMax) ]_vars

\* the first Update measured 50 bytes over 3 seconds up and down; the second
\* returns no delta, so the current speeds are 0 and the maxima stay
C17_Witness ==
    /\ peer.Announces = 2
    /\ prev.SpeedUP = <<50, 3>> /\ prev.SpeedUPMax = <<50, 3>>
    /\ prev.SpeedDN = <<50, 3>> /\ prev.SpeedDNMax = <<50, 3>>
    /\ ret = NoRet
    /\ peer.SpeedUP = ZeroSpeed /\ peer.SpeedDN = ZeroSpeed
    /\ peer.SpeedUPMax = <<50, 3>> /\ peer.SpeedDNMax = <<50, 3>>

\* the fields of a peer record Update has no assignment to
Identity(p) == <<p.AnnounceLast, p.AnnounceFirst, p.UserID, p.Username, p.TorrentID>>

\* C18: an Update never turns the active flag on and changes none of the
\* last-announce timestamp, first-announce timestamp, user id, username and
\* torrent id: a peer inactive before an Update is inactive after it whatever
\* the event, and every Update of a run measures its elapsed time (for the
\* speeds and for the active time) from the timestamp the first one found.
C18_UpdateFrame ==
    \A k \in 1..Len(hist) :
      /\ hist[k].after.Active => hist[k].before.Active
      /\ Identity(hist[k].after) = Identity(hist[k].before)
      /\ hist[k].before.AnnounceLast = hist[1].before.AnnounceLast
      /\ hist[k].after.SpeedUP = EstSpeed(hist[1].before.AnnounceLast, now, hist[k].ul)
      /\ hist[k].after.SpeedDN = EstSpeed(hist[1].before.AnnounceLast, now, hist[k].dl)
      /\ hist[k].after.TotalTime \in
           { hist[k].before.TotalTime,
             hist[k].before.TotalTime + (now - hist[1].before.AnnounceLast) }

\* an inactive stored peer announces started and then twice more: it is still
\* inactive, its timestamps and owner are the loaded ones, and the third
\* Update measured its speed over the same 3 seconds as the second
C18_Witness ==
    /\ Len(hist) = 3
    /\ ~hist[1].before.Active /\ hist[1].before.AnnounceLast = 1
    /\ hist[1].a.Event = STARTED /\ hist[2].a.Event = NONE /\ hist[3].a.Event = COMPLETED
    /\ ~peer.Active
    /\ peer.AnnounceLast = 1 /\ peer.AnnounceFirst = 1 /\ peer.UserID = 7
    /\ peer.Username = "bob" /\ peer.TorrentID = TheTorrentID
    /\ hist[2].after.SpeedUP = <<40, 3>> /\ hist[3].after.SpeedUP = <<10, 3>>
    /\ peer.TotalTime = 0

\* C19 as stated: the fields a Sync queues while calls run on the same peer
\* are a snapshot of the peer as it stands between calls: either one the peer
\* showed at some point of the Sync (all fields from before an Update), or,
\* for a Sync that returned while a call was inside the peer, the one that
\* call leaves behind (all fields from after the Update).  The second case is
\* judged once that call has returned.
C19_ConsistentSnapshot ==
    \A t \in DOMAIN th :
      (th[t].pc = "idle" /\ "snap" \in DOMAIN th[t]) =>
        \/ th[t].snap \in th[t].clean
        \/ /\ th[t].holder # 0
           /\ \/ th[th[t].holder].n = th[t].calls
              \/ /\ th[th[t].holder].n = th[t].calls + 1
                 /\ th[t].snap = SnapshotOf(serial[th[t].id])
              \/ th[th[t].holder].n > th[t].calls + 1

====
